---------------------------- MODULE Spec2Model ----------------------------
(***************************************************************************)
(* BearCart analytics: a model of                                          *)
(*   - ApiService.getDashboardData  (the dashboard's one REST fetch),       *)
(*   - BearCartDataCleaner / BearCartMetrics / prepare_dashboard_data      *)
(*     (the pandas cleaning and aggregation pipeline),                     *)
(*   - the data generators, the KPI block, the state and the handlers of   *)
(*     the BearCartDashboard component.                                    *)
(***************************************************************************)
EXTENDS Integers, Sequences, FiniteSets, TLC

VARIABLES
    \* ---- ApiService.getDashboardData, one entry per invocation ----
    pc,          \* where each invocation stands
    upstream,    \* what the network did to the invocation so far
    response,    \* the Response the invocation's fetch produced
    requests,    \* HTTP requests issued so far, in order
    errorLog,    \* console.error events so far, in order
    outcome,     \* how the invocation's promise settled
    settles,     \* how many times the invocation's promise settled
    \* ---- the cleaning / metrics pipeline ----
    csv_sessions,     \* sessions.csv
    csv_orders,       \* orders.csv
    csv_refunds,      \* refunds.csv
    stage,            \* the next step of the USAGE script
    exception,        \* the exception that ended the script, if any
    df_sessions,      \* sessions table
    df_orders,        \* orders table
    df_refunds,       \* refunds table
    df_master,        \* master table
    cleaning_report,  \* BearCartDataCleaner.cleaning_report
    metrics,          \* the four BearCartMetrics dictionaries
    dashboard_data,   \* prepare_dashboard_data's result
    \* ---- the BearCartDashboard component ----
    activeTab,        \* useState("Overview")
    mobileOpen,       \* useState(false)
    timeRange,        \* useState("Week")
    selectedChannel,  \* useState(null)
    selectedCategory, \* useState(null)
    memo              \* the values of the eight useMemo calls

apiVars  == <<pc, upstream, response, requests, errorLog, outcome, settles>>
pipeVars == <<csv_sessions, csv_orders, csv_refunds, stage, exception,
              df_sessions, df_orders, df_refunds, df_master,
              cleaning_report, metrics, dashboard_data>>
uiVars   == <<activeTab, mobileOpen, timeRange, selectedChannel,
              selectedCategory, memo>>
vars     == <<pc, upstream, response, requests, errorLog, outcome, settles,
              csv_sessions, csv_orders, csv_refunds, stage, exception,
              df_sessions, df_orders, df_refunds, df_master,
              cleaning_report, metrics, dashboard_data,
              activeTab, mobileOpen, timeRange, selectedChannel,
              selectedCategory, memo>>

(***************************************************************************)
(*                      ApiService.getDashboardData                        *)
(***************************************************************************)

\* Invocations of getDashboardData that may overlap.
MaxCalls == 2
Calls == 1..MaxCalls

BASE_URL == "https://bearcart.onrender.com"
DashboardUrl == <<BASE_URL, "/api/dashboard">>

\* The five fields of interface DashboardData.
DashboardFields == {"traffic", "conversion", "revenue", "quality", "products"}

\* JSON values a body may hold: null, or an object with some fields and
\* possibly a "detail" member ("" stands for an empty or absent detail).
JsonNull == [type |-> "null", fields |-> {}, detail |-> ""]
JsonObject(fs, d) == [type |-> "object", fields |-> fs, detail |-> d]
JsonValues ==
    {JsonNull}
    \cup {JsonObject(fs, d) : fs \in {{}, {"traffic", "conversion"}, DashboardFields},
                              d \in {"", "Rate limited"}}

\* Body texts: text that is not JSON, or the text of a JSON value.
Bodies ==
    {[valid |-> FALSE, value |-> JsonNull]}
    \cup {[valid |-> TRUE, value |-> v] : v \in JsonValues}

OkStatuses == {200}
ErrorStatuses == {404, 500}

\* What fetch may resolve with: response.ok is true exactly for a 2xx status.
Responses ==
    {[ok |-> TRUE, status |-> s, body |-> b] : s \in OkStatuses, b \in Bodies}
    \cup {[ok |-> FALSE, status |-> s, body |-> b] : s \in ErrorStatuses, b \in Bodies}

NoResponse == [ok |-> FALSE, status |-> 0, body |-> [valid |-> FALSE, value |-> JsonNull]]

\* Error objects: the message is a text, followed by the status it
\* interpolates (0 when it interpolates none).
Message(text, status) == [text |-> text, status |-> status]
NetworkError == [name |-> "TypeError", message |-> Message("Failed to fetch", 0)]
BodyReadError == [name |-> "TypeError", message |-> Message("body stream error", 0)]
JsonSyntaxError == [name |-> "SyntaxError", message |-> Message("Unexpected token", 0)]
NullMemberError ==
    [name |-> "TypeError", message |-> Message("Cannot read properties of null", 0)]
HttpError(status) == [name |-> "Error", message |-> Message("HTTP error! status: ", status)]
DetailError(d) == [name |-> "Error", message |-> Message(d, 0)]

\* JSON.parse(text), and the parsing response.json() does.
JSONParse(text) ==
    IF text.valid THEN [ok |-> TRUE, value |-> text.value, error |-> JsonSyntaxError]
    ELSE [ok |-> FALSE, value |-> JsonNull, error |-> JsonSyntaxError]

\* What the body of the inner try throws: JSON.parse's SyntaxError, the
\* TypeError of reading .detail of null, or new Error(json.detail || generic).
InnerTryThrows(text, status) ==
    LET parsed == JSONParse(text) IN
    IF ~parsed.ok THEN parsed.error
    ELSE IF parsed.value.type = "null" THEN NullMemberError
    ELSE IF parsed.value.detail # "" THEN DetailError(parsed.value.detail)
    ELSE HttpError(status)

\* The inner catch (e): whatever was thrown, throw the generic error.
InnerCatchThrows(e, status) == HttpError(status)

\* The outer catch (error): what console.error records, and what is thrown.
Logged(error) == error
\* (a catch that throws a new error in place of the one it caught)
RethrownWrapped(error) ==
    [name |-> "Error", message |-> Message("Failed to fetch dashboard data", 0)]
Rethrown(error) == error

\* The promise of an async function that throws / returns.
NoOutcome == [kind |-> "pending", value |-> JsonNull, error |-> NetworkError]
Rejection(error) == [kind |-> "rejected", value |-> JsonNull, error |-> error]
Resolution(value) == [kind |-> "resolved", value |-> value, error |-> NetworkError]

\* The outcome of an invocation whose try block threw `error`.
\* (a catch that returns an empty default instead of throwing)
CatchOutcomeDefault(error) == Resolution(JsonObject({}, ""))
CatchOutcome(error) == Rejection(Rethrown(error))

\* The requests on the wire after invocation c has called fetch.
\* (a service that reuses the first request's result for later calls)
IssueRequestCached(reqs, c) ==
    IF reqs = <<>> THEN Append(reqs, [call |-> c, url |-> DashboardUrl]) ELSE reqs
IssueRequest(reqs, c) == Append(reqs, [call |-> c, url |-> DashboardUrl])

\* The await to take after fetch resolved with resp.
\* (a service that fetches again on a non-OK status)
AfterFetchRetry(resp) == IF resp.ok THEN "json" ELSE "fetch"
AfterFetch(resp) == IF resp.ok THEN "json" ELSE "text"

\* The promise settles: pc becomes the kind of the outcome.
Settle(c, o) ==
    /\ outcome' = [outcome EXCEPT ![c] = o]
    /\ settles' = [settles EXCEPT ![c] = @ + 1]
    /\ pc' = [pc EXCEPT ![c] = o.kind]

\* catch (error) { console.error(..., error); throw error; }
OuterCatch(c, error) ==
    /\ errorLog' = Append(errorLog, [call |-> c, error |-> Logged(error)])
    /\ Settle(c, CatchOutcome(error))

\* getDashboardData() is called: fetch(`${baseURL}/api/dashboard`) is issued.
Call(c) ==
    /\ pc[c] = "idle"
    /\ requests' = IssueRequest(requests, c)
    /\ pc' = [pc EXCEPT ![c] = "fetch"]
    /\ UNCHANGED <<upstream, response, errorLog, outcome, settles>>
    /\ UNCHANGED <<pipeVars, uiVars>>

\* fetch rejects (network failure).
FetchRejects(c) ==
    /\ pc[c] = "fetch"
    /\ upstream' = [upstream EXCEPT ![c] = "network error"]
    /\ OuterCatch(c, NetworkError)
    /\ UNCHANGED <<response, requests>>
    /\ UNCHANGED <<pipeVars, uiVars>>

\* fetch resolves with a Response; the code goes on to text() or json().
FetchResolves(c) ==
    /\ pc[c] = "fetch"
    /\ \E resp \in Responses :
          /\ response' = [response EXCEPT ![c] = resp]
          /\ upstream' = [upstream EXCEPT ![c] = IF resp.ok THEN "ok" ELSE "http error"]
          /\ pc' = [pc EXCEPT ![c] = AfterFetch(resp)]
    /\ UNCHANGED <<requests, errorLog, outcome, settles>>
    /\ UNCHANGED <<pipeVars, uiVars>>

\* await response.text() rejects.
TextRejects(c) ==
    /\ pc[c] = "text"
    /\ OuterCatch(c, BodyReadError)
    /\ UNCHANGED <<upstream, response, requests>>
    /\ UNCHANGED <<pipeVars, uiVars>>

\* await response.text() resolves: inner try, inner catch, outer catch.
TextResolves(c) ==
    /\ pc[c] = "text"
    /\ LET status == response[c].status
           e == InnerTryThrows(response[c].body, status)
       IN OuterCatch(c, InnerCatchThrows(e, status))
    /\ UNCHANGED <<upstream, response, requests>>
    /\ UNCHANGED <<pipeVars, uiVars>>

\* await response.json() rejects: the body cannot be read, or is not JSON.
JsonRejects(c) ==
    /\ pc[c] = "json"
    /\ \E readOk \in BOOLEAN :
          /\ readOk => ~JSONParse(response[c].body).ok
          /\ upstream' = [upstream EXCEPT
                             ![c] = IF readOk THEN "parse error" ELSE "read error"]
          /\ OuterCatch(c, IF readOk THEN JSONParse(response[c].body).error
                           ELSE BodyReadError)
    /\ UNCHANGED <<response, requests>>
    /\ UNCHANGED <<pipeVars, uiVars>>

\* await response.json() resolves: the parsed body is returned as it is.
JsonResolves(c) ==
    /\ pc[c] = "json"
    /\ JSONParse(response[c].body).ok
    /\ Settle(c, Resolution(JSONParse(response[c].body).value))
    /\ UNCHANGED <<upstream, response, requests, errorLog>>
    /\ UNCHANGED <<pipeVars, uiVars>>

ApiStep(c) ==
    \/ Call(c)
    \/ FetchRejects(c)
    \/ FetchResolves(c)
    \/ TextRejects(c)
    \/ TextResolves(c)
    \/ JsonRejects(c)
    \/ JsonResolves(c)

\* The fetch and the body reads of an invocation eventually settle.
ApiSettling(c) ==
    /\ WF_vars(FetchRejects(c) \/ FetchResolves(c))
    /\ WF_vars(TextRejects(c) \/ TextResolves(c))
    /\ WF_vars(JsonRejects(c) \/ JsonResolves(c))

InitApi ==
    /\ pc = [c \in Calls |-> "idle"]
    /\ upstream = [c \in Calls |-> "none"]
    /\ response = [c \in Calls |-> NoResponse]
    /\ requests = <<>>
    /\ errorLog = <<>>
    /\ outcome = [c \in Calls |-> NoOutcome]
    /\ settles = [c \in Calls |-> 0]

(***************************************************************************)
(*              pandas tables, cells and the helpers used on them          *)
(***************************************************************************)

\* A table is a sequence of rows (records); row.ix is the row's index label.
\* Missing cells: NaN (a missing number, NaT for a date) and None (a missing
\* string).  BadCell is a CSV cell whose text is not a number.
NaN == -(99999)
BadCell == -(88888)
None == "None"

\* Comparisons of numeric cells: every comparison with NaN is False.
Lt(a, b) == a # NaN /\ b # NaN /\ a < b
Gt(a, b) == a # NaN /\ b # NaN /\ a > b
Ge(a, b) == a # NaN /\ b # NaN /\ a >= b

\* pd.to_numeric(column, errors='coerce') on one cell.
to_numeric(x) == IF x = BadCell THEN NaN ELSE x

RECURSIVE SeqSum(_)
SeqSum(s) == IF s = <<>> THEN 0 ELSE Head(s) + SeqSum(Tail(s))

Min2(a, b) == IF a <= b THEN a ELSE b

\* mask.sum() for a boolean mask.
CountTrue(mask) == Cardinality({i \in DOMAIN mask : mask[i]})

\* df[mask]: the rows whose mask is True, labels and order kept.
Filter(df, mask) ==
    LET idx == SelectSeq([i \in 1..Len(df) |-> i], LAMBDA i : mask[i])
    IN [k \in 1..Len(idx) |-> df[idx[k]]]

\* A fresh RangeIndex 0..n-1 (read_csv and merge both produce one).
RangeIndex(df) == [i \in 1..Len(df) |-> [df[i] EXCEPT !.ix = i - 1]]

\* The non-missing values of a column, in row order.
NotNA(df, col, na) ==
    LET idx == SelectSeq([i \in 1..Len(df) |-> i], LAMBDA i : df[i][col] # na)
    IN [k \in 1..Len(idx) |-> df[idx[k]][col]]

\* The keys groupby / value_counts produce: missing keys are dropped.
GroupKeys(df, col, na) == {df[i][col] : i \in 1..Len(df)} \ {na}

\* The rows of one group.
Group(df, col, v) == SelectSeq(df, LAMBDA r : r[col] = v)

\* left.merge(right[[key, col]], on=key, how='left'): every left row, once
\* per matching right row (in right's order), or once with col missing.
RECURSIVE MergeRows(_, _, _, _)
MergeRows(left, right, key, col) ==
    IF left = <<>> THEN <<>>
    ELSE LET l == Head(left)
             m == SelectSeq(right, LAMBDA r : r[key] = l[key])
             out == IF m = <<>> THEN <<(col :> NaN) @@ l>>
                    ELSE [k \in 1..Len(m) |-> (col :> m[k][col]) @@ l]
         IN out \o MergeRows(Tail(left), right, key, col)

MergeLeft(left, right, key, col) == RangeIndex(MergeRows(left, right, key, col))

\* Numbers a metric may come out as: a fraction n/d (d > 0), not-a-number,
\* an infinity, or no number at all because the division raised.
Num(n, d) == [k |-> "num", n |-> n, d |-> d]
NotANumber == [k |-> "nan", n |-> 0, d |-> 1]
Infinity == [k |-> "inf", n |-> 1, d |-> 1]
ZeroDivisionError == [k |-> "raise", n |-> 0, d |-> 1]

\* (Python's own division, which raises on a zero divisor)
PythonDivide(a, b) == IF b # 0 THEN Num(a, b) ELSE ZeroDivisionError
\* numpy's scalar true division (the numerators are numpy scalars, results
\* of Series.sum()): x / 0 warns and gives nan or inf.
NumpyDivide(a, b) ==
    IF b # 0 THEN Num(a, b) ELSE IF a = 0 THEN NotANumber ELSE Infinity

\* Series.mean() of numeric cells counted in units of 1/unit: missing cells
\* are skipped, and the mean of nothing is nan.
Mean(df, col, unit) ==
    LET xs == NotNA(df, col, NaN)
    IN IF xs = <<>> THEN NotANumber ELSE Num(SeqSum(xs), unit * Len(xs))

\* Series.sum() of numeric cells: missing cells are skipped.
Sum(df, col) == SeqSum(NotNA(df, col, NaN))

\* Series.mean() of a column of fractions (nan cells skipped).
RECURSIVE FracSum(_)
FracSum(s) ==
    IF s = <<>> THEN Num(0, 1)
    ELSE LET r == FracSum(Tail(s))
         IN Num(Head(s).n * r.d + r.n * Head(s).d, Head(s).d * r.d)

MeanOfFractions(df, col) ==
    LET xs == SelectSeq([i \in 1..Len(df) |-> df[i][col]], LAMBDA x : x.k = "num")
    IN IF xs = <<>> THEN NotANumber
       ELSE Num(FracSum(xs).n, FracSum(xs).d * Len(xs))

(***************************************************************************)
(*                          BearCartDataCleaner                            *)
(***************************************************************************)

\* load_and_profile: read_csv gives the rows a RangeIndex.
load_and_profile(csv) == RangeIndex(csv)

\* df.duplicated(subset=[key]): True for a row whose key appeared earlier.
duplicated(df, key) ==
    [i \in 1..Len(df) |-> \E j \in 1..(i - 1) : df[j][key] = df[i][key]]

\* (drop_duplicates() without subset: only rows equal in every column go)
drop_duplicates_rows(df, key) ==
    Filter(df, [i \in 1..Len(df) |->
        ~\E j \in 1..(i - 1) : [df[j] EXCEPT !.ix = 0] = [df[i] EXCEPT !.ix = 0]])
drop_duplicates(df, key) ==
    Filter(df, [i \in 1..Len(df) |-> ~duplicated(df, key)[i]])

\* The bounds of a believable session, in seconds.
BotMinSeconds == 1
BotMaxSeconds == 28800

\* bot_mask: True for a session shorter than 1 second or longer than 8 hours.
bot_mask(df) ==
    [i \in 1..Len(df) |->
        \/ Lt(df[i].session_duration, BotMinSeconds)
        \/ Gt(df[i].session_duration, BotMaxSeconds)]

\* quantile(0.95), linear interpolation, as a multiple of 1/QuantileDen:
\* with the n present values sorted, position 0.95 * (n - 1).
QuantileNum == 19
QuantileDen == 20
quantile95(xs) ==
    LET n == Len(xs)
        s == SortSeq(xs, LAMBDA a, b : a < b)
        pos == QuantileNum * (n - 1)
        lo == pos \div QuantileDen
        fr == pos % QuantileDen
    IN IF n = 0 THEN NaN
       ELSE IF fr = 0 THEN QuantileDen * s[lo + 1]
       ELSE QuantileDen * s[lo + 1] + fr * (s[lo + 2] - s[lo + 1])

\* clip(upper=q) of one cell, in units of 1/QuantileDen second.
clip(x, q) ==
    IF x = NaN THEN NaN
    ELSE IF q = NaN THEN QuantileDen * x
    ELSE Min2(QuantileDen * x, q)

\* (the bots counted on the table as loaded, before the duplicates go)
clean_sessions_bots_first(df) ==
    LET duplicates == CountTrue(duplicated(df, "session_id"))
        d0 == [i \in 1..Len(df) |->
                 [df[i] EXCEPT !.session_duration = to_numeric(@)]]
        bots_removed == CountTrue(bot_mask(d0))
        d1 == drop_duplicates(df, "session_id")
        d2 == [i \in 1..Len(d1) |->
                 [d1[i] EXCEPT
                    !.traffic_source = IF @ = None THEN "Direct" ELSE @,
                    !.session_duration = to_numeric(@)]]
        d3 == Filter(d2, [i \in 1..Len(d2) |-> ~bot_mask(d2)[i]])
        q95 == quantile95(NotNA(d3, "session_duration", NaN))
        d4 == [i \in 1..Len(d3) |->
                 ("session_duration_clean" :> clip(d3[i].session_duration, q95))
                 @@ d3[i]]
    IN [df |-> d4, sessions_removed |-> duplicates + bots_removed]
\* clean_sessions: the cleaned table and what it adds to cleaning_report.
clean_sessions(df) ==
    LET duplicates == CountTrue(duplicated(df, "session_id"))
        d1 == drop_duplicates(df, "session_id")
        d2 == [i \in 1..Len(d1) |->
                 [d1[i] EXCEPT
                    !.traffic_source = IF @ = None THEN "Direct" ELSE @,
                    !.session_duration = to_numeric(@)]]
        bots_removed == CountTrue(bot_mask(d2))
        d3 == Filter(d2, [i \in 1..Len(d2) |-> ~bot_mask(d2)[i]])
        q95 == quantile95(NotNA(d3, "session_duration", NaN))
        d4 == [i \in 1..Len(d3) |->
                 ("session_duration_clean" :> clip(d3[i].session_duration, q95))
                 @@ d3[i]]
    IN [df |-> d4, sessions_removed |-> duplicates + bots_removed]

\* df_orders[mask] where mask is a Series with its own RangeIndex 0..m-1:
\* pandas aligns the mask to the rows' labels, and raises IndexingError when
\* a row's label is not among the mask's.
Unalignable(df, mask) == \E i \in 1..Len(df) : df[i].ix \notin 0..(Len(mask) - 1)
FilterAligned(df, mask) == Filter(df, [i \in 1..Len(df) |-> mask[df[i].ix + 1]])

\* (the value filter written >= 0, to go with the count of negative orders)
clean_orders_nonnegative(orders, sessions) ==
    LET d1 == Filter(orders, [i \in 1..Len(orders) |-> orders[i].order_id # NaN])
        df_merged == MergeLeft(d1, sessions, "session_id", "session_date")
        bad == [i \in 1..Len(df_merged) |->
                  Lt(df_merged[i].order_date, df_merged[i].session_date)]
        invalid_dates == CountTrue(bad)
        d2 == FilterAligned(d1, [i \in 1..Len(bad) |-> ~bad[i]])
        d3 == [i \in 1..Len(d2) |-> [d2[i] EXCEPT !.order_value = to_numeric(@)]]
        negative_orders ==
            CountTrue([i \in 1..Len(d3) |-> Lt(d3[i].order_value, 0)])
        d4 == Filter(d3, [i \in 1..Len(d3) |-> Ge(d3[i].order_value, 0)])
    IN IF Unalignable(d1, bad)
       THEN [raised |-> "IndexingError", df |-> <<>>, orders_removed |-> 0]
       ELSE [raised |-> "", df |-> d4,
             orders_removed |-> invalid_dates + negative_orders]
\* clean_orders: the cleaned table and report entry, or the exception raised.
clean_orders(orders, sessions) ==
    LET d1 == Filter(orders, [i \in 1..Len(orders) |-> orders[i].order_id # NaN])
        df_merged == MergeLeft(d1, sessions, "session_id", "session_date")
        bad == [i \in 1..Len(df_merged) |->
                  Lt(df_merged[i].order_date, df_merged[i].session_date)]
        invalid_dates == CountTrue(bad)
        d2 == FilterAligned(d1, [i \in 1..Len(bad) |-> ~bad[i]])
        d3 == [i \in 1..Len(d2) |-> [d2[i] EXCEPT !.order_value = to_numeric(@)]]
        negative_orders ==
            CountTrue([i \in 1..Len(d3) |-> Lt(d3[i].order_value, 0)])
        d4 == Filter(d3, [i \in 1..Len(d3) |-> Gt(d3[i].order_value, 0)])
    IN IF Unalignable(d1, bad)
       THEN [raised |-> "IndexingError", df |-> <<>>, orders_removed |-> 0]
       ELSE [raised |-> "", df |-> d4,
             orders_removed |-> invalid_dates + negative_orders]

\* (the filter written as in clean_orders, ~(refund_date < order_date), which
\* keeps the rows whose order_date is missing)
clean_refunds_not_before(refunds, orders) ==
    LET d1 == MergeLeft(refunds, orders, "order_id", "order_date")
        invalid_refunds ==
            CountTrue([i \in 1..Len(d1) |-> Lt(d1[i].refund_date, d1[i].order_date)])
        d2 == Filter(d1, [i \in 1..Len(d1) |-> ~Lt(d1[i].refund_date, d1[i].order_date)])
        d3 == [i \in 1..Len(d2) |->
                 ("days_to_refund" :>
                     (IF d2[i].order_date = NaN THEN NaN
                      ELSE d2[i].refund_date - d2[i].order_date)) @@ d2[i]]
    IN [df |-> d3, refunds_removed |-> invalid_refunds]
\* clean_refunds: the cleaned table and what it adds to cleaning_report.
clean_refunds(refunds, orders) ==
    LET d1 == MergeLeft(refunds, orders, "order_id", "order_date")
        invalid_refunds ==
            CountTrue([i \in 1..Len(d1) |-> Lt(d1[i].refund_date, d1[i].order_date)])
        d2 == Filter(d1, [i \in 1..Len(d1) |-> Ge(d1[i].refund_date, d1[i].order_date)])
        d3 == [i \in 1..Len(d2) |->
                 ("days_to_refund" :> (d2[i].refund_date - d2[i].order_date)) @@ d2[i]]
    IN [df |-> d3, refunds_removed |-> invalid_refunds]

\* groupby('session_id').agg(order_id count, order_value sum and mean,
\* order_date first), keyed by session_id.
order_agg(orders) ==
    [s \in GroupKeys(orders, "session_id", NaN) |->
        LET g == Group(orders, "session_id", s)
            dates == NotNA(g, "order_date", NaN)
        IN [orders_in_session |-> Len(NotNA(g, "order_id", NaN)),
            total_order_value |-> Sum(g, "order_value"),
            avg_order_value |-> Mean(g, "order_value", 1),
            first_order_date |-> IF dates = <<>> THEN NaN ELSE dates[1]]]

\* (df_refund_flag left as groupby().size(): the number of refund records)
orders_refund_size(orders, refunds) ==
    [i \in 1..Len(orders) |->
        ("was_refunded" :> Len(Group(refunds, "order_id", orders[i].order_id)))
        @@ orders[i]]
\* df_refund_flag merged into the orders: 1 for an order with a refund
\* record, 0 (the filled NaN) for the others.
orders_refund(orders, refunds) ==
    LET flagged == GroupKeys(refunds, "order_id", NaN)
    IN [i \in 1..Len(orders) |->
          ("was_refunded" :> (IF orders[i].order_id \in flagged THEN 1 ELSE 0))
          @@ orders[i]]

RECURSIVE SeqMax(_)
SeqMax(s) ==
    IF Len(s) = 1 THEN s[1]
    ELSE IF Head(s) >= SeqMax(Tail(s)) THEN Head(s) ELSE SeqMax(Tail(s))

RECURSIVE SeqMin(_)
SeqMin(s) ==
    IF Len(s) = 1 THEN s[1]
    ELSE IF Head(s) <= SeqMin(Tail(s)) THEN Head(s) ELSE SeqMin(Tail(s))

\* (groupby('session_id')['was_refunded'].min(): 1 only when every order of
\* the session was refunded)
refund_agg_min(orders, refunds) ==
    LET df == orders_refund(orders, refunds)
    IN [s \in GroupKeys(df, "session_id", NaN) |->
          SeqMin(NotNA(Group(df, "session_id", s), "was_refunded", NaN))]
\* groupby('session_id')['was_refunded'].max()
refund_agg(orders, refunds) ==
    LET df == orders_refund(orders, refunds)
    IN [s \in GroupKeys(df, "session_id", NaN) |->
          SeqMax(NotNA(Group(df, "session_id", s), "was_refunded", NaN))]

\* The keys of a groupby result, ascending (groupby sorts its keys).
RECURSIVE SortedKeys(_)
SortedKeys(S) ==
    IF S = {} THEN <<>>
    ELSE LET least == CHOOSE x \in S : \A y \in S : x <= y
         IN <<least>> \o SortedKeys(S \ {least})

\* agg.reset_index(): one row per group, the key back as a column.
reset_index(agg, key) ==
    LET keys == SortedKeys(DOMAIN agg)
    IN [i \in 1..Len(keys) |-> (key :> keys[i]) @@ agg[keys[i]]]

\* left.merge(right, on=key, how='left') with all of right's columns: every
\* left row once per right row with its key (in right's order), or once with
\* right's columns missing when there is none.
RECURSIVE merge(_, _, _, _)
merge(left, right, key, missing) ==
    IF left = <<>> THEN <<>>
    ELSE LET l == Head(left)
             m == SelectSeq(right, LAMBDA r : r[key] = l[key])
             out == IF m = <<>> THEN <<l @@ missing>>
                    ELSE [k \in 1..Len(m) |-> l @@ m[k]]
         IN out \o merge(Tail(left), right, key, missing)

\* The columns of df_order_agg, missing.
NoOrderAgg ==
    [orders_in_session |-> NaN, total_order_value |-> NaN,
     avg_order_value |-> NotANumber, first_order_date |-> NaN]

\* (the orders merged in as they are, one row per order, not aggregated)
order_table_raw(orders) ==
    [i \in 1..Len(orders) |->
        [session_id |-> orders[i].session_id,
         orders_in_session |-> 1,
         total_order_value |-> orders[i].order_value,
         avg_order_value |-> Num(orders[i].order_value, 1),
         first_order_date |-> orders[i].order_date]]
\* df_order_agg after reset_index and the renaming of its columns.
order_agg_table(orders) == reset_index(order_agg(orders), "session_id")

\* df_refund_agg after reset_index.
refund_agg_table(orders, refunds) ==
    LET ra == refund_agg(orders, refunds)
    IN reset_index([s \in DOMAIN ra |-> [was_refunded |-> ra[s]]], "session_id")

\* (converted taken as orders_in_session.fillna(0) >= 0)
create_master_dataset_all_converted(sessions, orders, refunds) ==
    LET m1 == merge(sessions, order_agg_table(orders), "session_id", NoOrderAgg)
        m2 == [i \in 1..Len(m1) |->
                 LET converted ==
                        (IF m1[i].orders_in_session = NaN THEN 0
                         ELSE m1[i].orders_in_session) >= 0
                 IN [converted |-> converted,
                     conversion_flag |-> IF converted THEN 1 ELSE 0] @@ m1[i]]
        m3 == merge(m2, refund_agg_table(orders, refunds), "session_id",
                    [was_refunded |-> NaN])
        m4 == [i \in 1..Len(m3) |->
                 [m3[i] EXCEPT !.was_refunded = IF @ = NaN THEN 0 ELSE @]]
    IN RangeIndex(m4)
\* create_master_dataset: the sessions, left-merged with df_order_agg, given
\* the two conversion columns, left-merged with df_refund_agg, was_refunded
\* filled with 0.
create_master_dataset(sessions, orders, refunds) ==
    LET m1 == merge(sessions, order_agg_table(orders), "session_id", NoOrderAgg)
        m2 == [i \in 1..Len(m1) |->
                 LET converted ==
                        (IF m1[i].orders_in_session = NaN THEN 0
                         ELSE m1[i].orders_in_session) > 0
                 IN [converted |-> converted,
                     conversion_flag |-> IF converted THEN 1 ELSE 0] @@ m1[i]]
        m3 == merge(m2, refund_agg_table(orders, refunds), "session_id",
                    [was_refunded |-> NaN])
        m4 == [i \in 1..Len(m3) |->
                 [m3[i] EXCEPT !.was_refunded = IF @ = NaN THEN 0 ELSE @]]
    IN RangeIndex(m4)

(***************************************************************************)
(*                            BearCartMetrics                              *)
(***************************************************************************)

\* series.value_counts().to_dict(): rows per value, missing values dropped.
value_counts(df, col, na) ==
    [v \in GroupKeys(df, col, na) |-> Len(Group(df, col, v))]

\* A cleaned duration (kept in units of 1/QuantileDen second) below / above
\* a number of seconds.
BounceSeconds == 5
BrowsedSeconds == 5
DurationLt(x, secs) == Lt(x, secs * QuantileDen)
DurationGt(x, secs) == Gt(x, secs * QuantileDen)

traffic_metrics(sessions) ==
    [total_sessions |-> Len(sessions),
     avg_session_duration |-> Mean(sessions, "session_duration_clean", QuantileDen),
     bounce_rate |->
        NumpyDivide(
            CountTrue([i \in 1..Len(sessions) |->
                DurationLt(sessions[i].session_duration_clean, BounceSeconds)]),
            Len(sessions)),
     sessions_by_channel |-> value_counts(sessions, "traffic_source", None),
     sessions_by_device |-> value_counts(sessions, "device_type", None)]

\* groupby(col)['conversion_flag'].agg(['sum', 'count'])
conversion_by(master, col) ==
    [v \in GroupKeys(master, col, None) |->
        LET g == Group(master, col, v)
        IN [sum |-> Sum(g, "conversion_flag"),
            count |-> Len(NotNA(g, "conversion_flag", NaN))]]

conversion_metrics(master) ==
    LET total_sessions == Len(master)
        converted == Sum(master, "conversion_flag")
    IN [overall_conversion_rate |-> NumpyDivide(converted, total_sessions),
        total_conversions |-> converted,
        conversion_by_channel |-> conversion_by(master, "traffic_source"),
        conversion_by_device |-> conversion_by(master, "device_type"),
        avg_time_to_conversion |->
            Mean(Filter(master, [i \in 1..Len(master) |-> master[i].converted]),
                 "session_duration_clean", QuantileDen)]

\* groupby(col)['total_order_value'].sum().to_dict()
revenue_by(master, col) ==
    [v \in GroupKeys(master, col, None) |->
        Sum(Group(master, col, v), "total_order_value")]

revenue_metrics(master) ==
    LET total_revenue == Sum(master, "total_order_value")
    IN [total_revenue |-> total_revenue,
        average_order_value |-> MeanOfFractions(master, "avg_order_value"),
        revenue_per_session |-> NumpyDivide(total_revenue, Len(master)),
        revenue_by_channel |-> revenue_by(master, "traffic_source"),
        revenue_by_device |-> revenue_by(master, "device_type"),
        top_products_by_revenue |-> revenue_by(master, "product_category")]

\* refunded_orders / total_orders if total_orders > 0 else 0
refund_rate(refunded_orders, total_orders) ==
    IF total_orders > 0 THEN NumpyDivide(refunded_orders, total_orders)
    ELSE Num(0, 1)

quality_metrics(master) ==
    LET total_orders == Sum(master, "orders_in_session")
        refunded_orders == Sum(master, "was_refunded")
        at_risk == Filter(master, [i \in 1..Len(master) |->
                        /\ master[i].was_refunded = 1
                        /\ master[i].traffic_source # None
                        /\ master[i].device_type # None])
    IN [overall_refund_rate |-> refund_rate(refunded_orders, total_orders),
        repeat_customer_rate |->
            NumpyDivide(
                CountTrue([i \in 1..Len(master) |->
                    master[i].is_returning_customer = 1]),
                Len(master)),
        refund_rate_by_category |->
            [v \in GroupKeys(master, "product_category", None) |->
                Mean(Group(master, "product_category", v), "was_refunded", 1)],
        at_risk_segments |->
            [p \in {<<at_risk[i].traffic_source, at_risk[i].device_type>> :
                        i \in 1..Len(at_risk)} |->
                Len(SelectSeq(at_risk, LAMBDA r :
                        <<r.traffic_source, r.device_type>> = p))]]

\* Every mean and rate the four dictionaries hold.
Rates(m) ==
    {m.traffic.avg_session_duration, m.traffic.bounce_rate,
     m.conversion.overall_conversion_rate, m.conversion.avg_time_to_conversion,
     m.revenue.average_order_value, m.revenue.revenue_per_session,
     m.quality.overall_refund_rate, m.quality.repeat_customer_rate}
    \cup {m.quality.refund_rate_by_category[v] :
              v \in DOMAIN m.quality.refund_rate_by_category}

AllMetrics(sessions, master) ==
    [traffic |-> traffic_metrics(sessions),
     conversion |-> conversion_metrics(master),
     revenue |-> revenue_metrics(master),
     quality |-> quality_metrics(master)]

\* prepare_dashboard_data: the funnel and the per-channel dictionaries.
funnel_stages == <<"Sessions", "Browsed", "Added to Cart", "Purchased">>
funnel_values(master) ==
    <<Len(master),
      CountTrue([i \in 1..Len(master) |->
          DurationGt(master[i].session_duration_clean, BrowsedSeconds)]),
      CountTrue([i \in 1..Len(master) |-> master[i].total_order_value # NaN]),
      Sum(master, "conversion_flag")>>

prepare_dashboard_data(master, orders, refunds) ==
    [funnel |-> [stages |-> funnel_stages, values |-> funnel_values(master)],
     revenue_by_channel |-> revenue_by(master, "traffic_source"),
     top_products |-> revenue_by(master, "product_category")]

(***************************************************************************)
(*          BearCartDashboard: the generated data and the KPI block        *)
(***************************************************************************)

\* generateChannelData; conversion is in tenths of a percent (4.2 is 42).
generateChannelData ==
    <<[name |-> "Organic", revenue |-> 28450, orders |-> 342, conversion |-> 42],
      [name |-> "Paid Ads", revenue |-> 18920, orders |-> 156, conversion |-> 21],
      [name |-> "Social", revenue |-> 12340, orders |-> 98, conversion |-> 18],
      [name |-> "Direct", revenue |-> 8920, orders |-> 67, conversion |-> 12],
      [name |-> "Referral", revenue |-> 5670, orders |-> 42, conversion |-> 9]>>

generateFunnelData ==
    <<[stage |-> "Sessions", value |-> 45000],
      [stage |-> "Product View", value |-> 32400],
      [stage |-> "Add to Cart", value |-> 8100],
      [stage |-> "Checkout", value |-> 2430],
      [stage |-> "Purchase", value |-> 1215]>>

generateRefundData ==
    <<[reason |-> "Damaged", count |-> 45, percentage |-> 28],
      [reason |-> "Wrong Size", count |-> 38, percentage |-> 24],
      [reason |-> "Not as Described", count |-> 32, percentage |-> 20],
      [reason |-> "Changed Mind", count |-> 26, percentage |-> 16],
      [reason |-> "Defective", count |-> 18, percentage |-> 12]>>

\* JavaScript's division of numbers: x / 0 is NaN or Infinity, never thrown.
MinusInfinity == [k |-> "inf", n |-> -1, d |-> 1]
JsDivide(a, b) ==
    IF b # 0 THEN Num(a, b)
    ELSE IF a = 0 THEN NotANumber
    ELSE IF a > 0 THEN Infinity ELSE MinusInfinity

Times(x, m) == IF x.k = "num" THEN Num(x.n * m, x.d) ELSE x

\* (digits cut off instead of rounded, as Math.floor(x * 10^d) / 10^d does)
toFixedTruncated(x, digits) ==
    IF x.k # "num" THEN x
    ELSE Num((x.n * 10^digits) \div x.d, 10^digits)
\* x.toFixed(digits), x = n/d with d > 0: the sign, then for the magnitude
\* the nearest multiple of 10^-digits (the larger of two equally near), kept
\* as n / 10^digits ("-0.0" and "0.0" as the same number); "NaN", "Infinity"
\* and "-Infinity" stay.
toFixed(x, digits) ==
    IF x.k # "num" THEN x
    ELSE LET magnitude == IF x.n < 0 THEN -x.n ELSE x.n
             rounded == (2 * magnitude * 10^digits + x.d) \div (2 * x.d)
         IN Num(IF x.n < 0 THEN -rounded ELSE rounded, 10^digits)

\* array.reduce((sum, item) => sum + item[field], 0)
reduceSum(data, field) == SeqSum([i \in 1..Len(data) |-> data[i][field]])

\* The KPI block of the component, from the three tables it reads.
TenthsPerUnit == 10
KPIs(channelData, funnelData, refundData) ==
    LET totalRevenue == reduceSum(channelData, "revenue")
        totalOrders == reduceSum(channelData, "orders")
        totalSessions == funnelData[1].value
        totalRefunds == reduceSum(refundData, "count")
    IN [totalRevenue |-> totalRevenue,
        totalOrders |-> totalOrders,
        avgConversion |->
            toFixed(JsDivide(reduceSum(channelData, "conversion"),
                             TenthsPerUnit * Len(channelData)), 1),
        totalSessions |-> totalSessions,
        conversionRate |->
            toFixed(Times(JsDivide(funnelData[Len(funnelData)].value, totalSessions),
                          100), 2),
        avgOrderValue |-> toFixed(JsDivide(totalRevenue, totalOrders), 2),
        totalRefunds |-> totalRefunds,
        refundRate |-> toFixed(Times(JsDivide(totalRefunds, totalOrders), 100), 1)]

\* What the component renders with: the tables its useMemo calls generate.
DashboardKPIs == KPIs(generateChannelData, generateFunnelData, generateRefundData)

(***************************************************************************)
(*          The BearCartDashboard component: state, view, handlers         *)
(***************************************************************************)

\* Math.random(): the k-th number of one of a few fixed streams, in
\* hundredths (0..99 stands for 0.00..0.99).
MaxSeed == 2
Seeds == 0..MaxSeed
random(seed, k) == (seed * 37 + k * 61 + seed * k * 7) % 100

\* Math.floor(Math.random() * range + base) for a draw r.
floorRandom(r, range, base) == (r * range) \div 100 + base

generateRevenueData(seed) ==
    LET days == <<"Mon", "Tue", "Wed", "Thu", "Fri", "Sat", "Sun">>
    IN [i \in 1..Len(days) |->
          [name |-> days[i],
           revenue |-> floorRandom(random(seed, 3 * i - 3), 8000, 2000),
           orders |-> floorRandom(random(seed, 3 * i - 2), 150, 50),
           visitors |-> floorRandom(random(seed, 3 * i - 1), 5000, 2000)]]

\* refundRate is kept in tenths of a percent.
generateProductData ==
    <<[id |-> 1, name |-> "Premium Hoodie", category |-> "Apparel",
       sales |-> 342, revenue |-> 12780, refundRate |-> 32],
      [id |-> 2, name |-> "Wireless Earbuds", category |-> "Electronics",
       sales |-> 156, revenue |-> 11700, refundRate |-> 58],
      [id |-> 3, name |-> "Office Chair", category |-> "Furniture",
       sales |-> 89, revenue |-> 8910, refundRate |-> 21],
      [id |-> 4, name |-> "USB-C Cable", category |-> "Accessories",
       sales |-> 567, revenue |-> 5670, refundRate |-> 12],
      [id |-> 5, name |-> "Phone Stand", category |-> "Accessories",
       sales |-> 234, revenue |-> 1404, refundRate |-> 8]>>

\* conversion is kept in tenths of a percent.
generateDeviceData ==
    <<[name |-> "Desktop", value |-> 45000, sessions |-> 12340, conversion |-> 38],
      [name |-> "Mobile", value |-> 38500, sessions |-> 18920, conversion |-> 19],
      [name |-> "Tablet", value |-> 16500, sessions |-> 4560, conversion |-> 25]>>

\* The label time ("00:00" .. "23:00") is a function of hour and is left out.
generateTimeSeriesData(seed) ==
    [i \in 1..24 |->
        [hour |-> i - 1,
         conversions |-> floorRandom(random(seed, 3 * i - 3), 50, 10),
         revenue |-> floorRandom(random(seed, 3 * i - 2), 2000, 500),
         bounceRate |-> floorRandom(random(seed, 3 * i - 1), 40, 20)]]

\* refundRate is kept in tenths of a percent.
generateCategoryPerformance ==
    <<[category |-> "Electronics", revenue |-> 34500, trend |-> 12, refundRate |-> 62],
      [category |-> "Apparel", revenue |-> 28900, trend |-> 8, refundRate |-> 35],
      [category |-> "Furniture", revenue |-> 18450, trend |-> -2, refundRate |-> 21],
      [category |-> "Accessories", revenue |-> 21240, trend |-> 15, refundRate |-> 18],
      [category |-> "Home Goods", revenue |-> 15600, trend |-> 5, refundRate |-> 28]>>

\* What the eight generators return in one render, for the random streams
\* the two random ones happen to read.
Generated(seedRevenue, seedTimeSeries) ==
    [revenueData |-> generateRevenueData(seedRevenue),
     channelData |-> generateChannelData,
     productData |-> generateProductData,
     deviceData |-> generateDeviceData,
     timeSeriesData |-> generateTimeSeriesData(seedTimeSeries),
     funnelData |-> generateFunnelData,
     categoryPerformance |-> generateCategoryPerformance,
     refundData |-> generateRefundData]

\* (no memoization: the generator's value of this render)
useMemoNever(cached, fresh) == fresh
\* useMemo(() => generate(), []) in a render after the first: the empty
\* dependency list never changes, so the cached value is returned.
useMemo(cached, fresh) == cached

\* A render after the first: each of the eight useMemo calls.
Rerender(fresh) ==
    memo' = [table \in DOMAIN memo |-> useMemo(memo[table], fresh[table])]

\* The KPI block, computed in every render from the memoized tables.
RenderedKPIs(data) == KPIs(data.channelData, data.funnelData, data.refundData)

\* The ids of the navigation items, and the tabs that have a content panel
\* (one `activeTab === "..." && (...)` block each).
NavItems == <<"Overview", "Channels", "Products", "Funnel", "Reports", "Settings">>
PanelTabs == {"Overview", "Channels", "Products", "Funnel", "Reports", "Settings"}

\* BEARCART_METRICS.timeRanges
timeRanges == <<"Day", "Week", "Month", "Quarter", "Year">>

\* null, for a state that holds a string or null.
null == "null"

ChannelNames == {memo.channelData[i].name : i \in 1..Len(memo.channelData)}

\* (a filter that keeps the other channels' rows)
filteredChannelDataOthers(channelData, selected) ==
    IF selected # null
    THEN SelectSeq(channelData, LAMBDA item : item.name # selected)
    ELSE channelData
\* filteredChannelData: the selected channel's rows, or all of them.
filteredChannelData(channelData, selected) ==
    IF selected # null
    THEN SelectSeq(channelData, LAMBDA item : item.name = selected)
    ELSE channelData

\* A value that is not displayed (dropoff of the first stage in the Overview).
NoValue == [k |-> "null", n |-> 0, d |-> 1]

\* Overview tab, Conversion Funnel: each stage's share of the first stage
\* and, after the first, its drop-off from the previous stage.
OverviewFunnel(funnelData) ==
    [idx \in 1..Len(funnelData) |->
        [stage |-> funnelData[idx].stage,
         percentage |->
            toFixed(Times(JsDivide(funnelData[idx].value, funnelData[1].value),
                          100), 1),
         dropoff |->
            IF idx > 1
            THEN toFixed(Times(JsDivide(funnelData[idx - 1].value
                                          - funnelData[idx].value,
                                        funnelData[idx - 1].value), 100), 1)
            ELSE NoValue]]

\* Funnel tab, Stage Analysis: the same two figures; the first stage is
\* compared with itself.
StageAnalysis(funnelData) ==
    [idx \in 1..Len(funnelData) |->
        LET prevValue == IF idx > 1 THEN funnelData[idx - 1].value
                         ELSE funnelData[idx].value
        IN [stage |-> funnelData[idx].stage,
            dropoff |->
               toFixed(Times(JsDivide(prevValue - funnelData[idx].value, prevValue),
                             100), 1),
            percentage |->
               toFixed(Times(JsDivide(funnelData[idx].value, funnelData[1].value),
                             100), 1)]]

\* What the Overview's Conversion Funnel puts on the page for each stage:
\* the stage and its value, the bar (as wide as percentage), and
\* `{dropoff && <span>-{dropoff}%</span>}`: null is falsy, the non-empty
\* string of toFixed is truthy.
OverviewFunnelShown(funnelData) ==
    [idx \in 1..Len(funnelData) |->
        LET row == OverviewFunnel(funnelData)[idx]
            truthy == row.dropoff # NoValue
        IN [stage |-> row.stage,
            value |-> funnelData[idx].value,
            percentage |-> row.percentage,
            showsDropoff |-> truthy,
            dropoff |-> IF truthy THEN row.dropoff ELSE NoValue]]

\* (the drop line outside its `idx > 0 &&` guard)
StageAnalysisShownUnguarded(funnelData) ==
    [idx \in 1..Len(funnelData) |->
        LET row == StageAnalysis(funnelData)[idx]
        IN [stage |-> row.stage,
            value |-> funnelData[idx].value,
            percentage |-> row.percentage,
            showsDropoff |-> TRUE,
            dropoff |-> row.dropoff]]
\* What the Funnel tab's Stage Analysis puts on the page for each stage: the
\* stage and its value, "{percentage}% of funnel" and the bar, and
\* `{idx > 0 && <p>... {dropoff}% drop from previous</p>}`.
StageAnalysisShown(funnelData) ==
    [idx \in 1..Len(funnelData) |->
        LET row == StageAnalysis(funnelData)[idx]
        IN [stage |-> row.stage,
            value |-> funnelData[idx].value,
            percentage |-> row.percentage,
            showsDropoff |-> idx > 1,
            dropoff |-> IF idx > 1 THEN row.dropoff ELSE NoValue]]

\* Funnel tables for the two views to be compared on: the first stages of
\* the funnel with small counts, zero, equal and growing ones among them.
MaxStages == 3
FunnelValues == {0, 1, 3}
FunnelDataSets ==
    UNION {[1..len -> FunnelValues] : len \in 1..MaxStages}
FunnelTable(values) ==
    [idx \in 1..Len(values) |->
        [stage |-> generateFunnelData[idx].stage, value |-> values[idx]]]

\* The Funnel tab's Optimization Opportunities card: three literal rows
\* (dropoff in tenths of a percent), shown as "{dropoff}% users drop off".
OptimizationOpportunities ==
    <<[step |-> "Product Page", dropoff |-> Num(286, 10), impact |-> "High"],
      [step |-> "Add to Cart", dropoff |-> Num(741, 10), impact |-> "Critical"],
      [step |-> "Checkout", dropoff |-> Num(500, 10), impact |-> "High"]>>
\* (the Overview panel left outside its `activeTab === "Overview" &&` guard)
RenderOverviewAlways ==
    [title |-> activeTab,
     navActive |-> {i \in 1..Len(NavItems) : activeTab = NavItems[i]},
     panels |-> {t \in PanelTabs : activeTab = t} \cup {"Overview"},
     sidebar |-> IF mobileOpen THEN "translate-x-0" ELSE "-translate-x-full",
     rangeActive |-> {i \in 1..Len(timeRanges) : timeRange = timeRanges[i]},
     channelActive |->
        IF selectedChannel = null THEN {"All Channels"}
        ELSE {c \in ChannelNames : selectedChannel = c},
     channelRows |-> filteredChannelData(memo.channelData, selectedChannel),
     kpis |-> RenderedKPIs(memo)]
\* What the component returns for the current state: the header's title, the
\* navigation buttons marked active, the content panels, the sidebar's
\* position on a small screen, the highlighted time range and channel button.
Render ==
    [title |-> activeTab,
     navActive |-> {i \in 1..Len(NavItems) : activeTab = NavItems[i]},
     panels |-> {t \in PanelTabs : activeTab = t},
     sidebar |-> IF mobileOpen THEN "translate-x-0" ELSE "-translate-x-full",
     rangeActive |-> {i \in 1..Len(timeRanges) : timeRange = timeRanges[i]},
     channelActive |->
        IF selectedChannel = null THEN {"All Channels"}
        ELSE {c \in ChannelNames : selectedChannel = c},
     channelRows |-> filteredChannelData(memo.channelData, selectedChannel),
     kpis |-> RenderedKPIs(memo)]

InitUI ==
    /\ activeTab = "Overview"
    /\ mobileOpen = FALSE
    /\ timeRange = "Week"
    /\ selectedChannel = null
    /\ selectedCategory = null
    /\ \E a, b \in Seeds : memo = Generated(a, b)

\* The component as it is when the other parts are looked at: mounted, with
\* the first of the random streams.
UIIdle ==
    /\ activeTab = "Overview"
    /\ mobileOpen = FALSE
    /\ timeRange = "Week"
    /\ selectedChannel = null
    /\ selectedCategory = null
    /\ memo = Generated(0, 0)

\* (a navigation button without the setMobileOpen(false) call)
SelectTabMenuKept(item) ==
    /\ activeTab' = item
    /\ UNCHANGED <<mobileOpen, timeRange, selectedChannel, selectedCategory>>
    /\ \E a, b \in Seeds : Rerender(Generated(a, b))
    /\ UNCHANGED <<apiVars, pipeVars>>
\* A navigation button: setActiveTab(item.id); setMobileOpen(false).
SelectTab(item) ==
    /\ activeTab' = item
    /\ mobileOpen' = FALSE
    /\ UNCHANGED <<timeRange, selectedChannel, selectedCategory>>
    /\ \E a, b \in Seeds : Rerender(Generated(a, b))
    /\ UNCHANGED <<apiVars, pipeVars>>

\* The header's menu button: setMobileOpen(true).
OpenMenu ==
    /\ mobileOpen' = TRUE
    /\ UNCHANGED <<activeTab, timeRange, selectedChannel, selectedCategory>>
    /\ \E a, b \in Seeds : Rerender(Generated(a, b))
    /\ UNCHANGED <<apiVars, pipeVars>>

\* The sidebar's close button: setMobileOpen(false).
CloseMenu ==
    /\ mobileOpen' = FALSE
    /\ UNCHANGED <<activeTab, timeRange, selectedChannel, selectedCategory>>
    /\ \E a, b \in Seeds : Rerender(Generated(a, b))
    /\ UNCHANGED <<apiVars, pipeVars>>

\* A time range button: setTimeRange(range).
SelectTimeRange(range) ==
    /\ timeRange' = range
    /\ UNCHANGED <<activeTab, mobileOpen, selectedChannel, selectedCategory>>
    /\ \E a, b \in Seeds : Rerender(Generated(a, b))
    /\ UNCHANGED <<apiVars, pipeVars>>

\* A channel button of the Channels panel: setSelectedChannel(channel.name).
SelectChannel(name) ==
    /\ "Channels" \in Render.panels
    /\ selectedChannel' = name
    /\ UNCHANGED <<activeTab, mobileOpen, timeRange, selectedCategory>>
    /\ \E a, b \in Seeds : Rerender(Generated(a, b))
    /\ UNCHANGED <<apiVars, pipeVars>>

\* The "All Channels" button: setSelectedChannel(null).
SelectAllChannels ==
    /\ "Channels" \in Render.panels
    /\ selectedChannel' = null
    /\ UNCHANGED <<activeTab, mobileOpen, timeRange, selectedCategory>>
    /\ \E a, b \in Seeds : Rerender(Generated(a, b))
    /\ UNCHANGED <<apiVars, pipeVars>>

NextUI ==
    \/ \E i \in 1..Len(NavItems) : SelectTab(NavItems[i])
    \/ OpenMenu
    \/ CloseMenu
    \/ \E i \in 1..Len(timeRanges) : SelectTimeRange(timeRanges[i])
    \/ \E name \in ChannelNames : SelectChannel(name)
    \/ SelectAllChannels


(***************************************************************************)
(*   The USAGE script: load, clean, join, measure, export, step by step    *)
(***************************************************************************)

NoMetrics == <<>>
NoExport == <<>>

Load ==
    /\ stage = "load"
    /\ df_sessions' = load_and_profile(csv_sessions)
    /\ df_orders' = load_and_profile(csv_orders)
    /\ df_refunds' = load_and_profile(csv_refunds)
    /\ stage' = "clean_sessions"
    /\ UNCHANGED <<csv_sessions, csv_orders, csv_refunds, exception, df_master,
                   cleaning_report, metrics, dashboard_data>>
    /\ UNCHANGED <<apiVars, uiVars>>

CleanSessions ==
    /\ stage = "clean_sessions"
    /\ LET res == clean_sessions(df_sessions)
       IN /\ df_sessions' = res.df
          /\ cleaning_report' =
                ("sessions_removed" :> res.sessions_removed) @@ cleaning_report
    /\ stage' = "clean_orders"
    /\ UNCHANGED <<csv_sessions, csv_orders, csv_refunds, exception, df_orders,
                   df_refunds, df_master, metrics, dashboard_data>>
    /\ UNCHANGED <<apiVars, uiVars>>

CleanOrders ==
    /\ stage = "clean_orders"
    /\ LET res == clean_orders(df_orders, df_sessions)
       IN IF res.raised # ""
          THEN /\ stage' = "raised"
               /\ exception' = res.raised
               /\ UNCHANGED <<df_orders, cleaning_report>>
          ELSE /\ stage' = "clean_refunds"
               /\ df_orders' = res.df
               /\ cleaning_report' =
                     ("orders_removed" :> res.orders_removed) @@ cleaning_report
               /\ UNCHANGED exception
    /\ UNCHANGED <<csv_sessions, csv_orders, csv_refunds, df_sessions,
                   df_refunds, df_master, metrics, dashboard_data>>
    /\ UNCHANGED <<apiVars, uiVars>>

CleanRefunds ==
    /\ stage = "clean_refunds"
    /\ LET res == clean_refunds(df_refunds, df_orders)
       IN /\ df_refunds' = res.df
          /\ cleaning_report' =
                ("refunds_removed" :> res.refunds_removed) @@ cleaning_report
    /\ stage' = "create_master"
    /\ UNCHANGED <<csv_sessions, csv_orders, csv_refunds, exception, df_sessions,
                   df_orders, df_master, metrics, dashboard_data>>
    /\ UNCHANGED <<apiVars, uiVars>>

CreateMaster ==
    /\ stage = "create_master"
    /\ df_master' = create_master_dataset(df_sessions, df_orders, df_refunds)
    /\ stage' = "metrics"
    /\ UNCHANGED <<csv_sessions, csv_orders, csv_refunds, exception, df_sessions,
                   df_orders, df_refunds, cleaning_report, metrics, dashboard_data>>
    /\ UNCHANGED <<apiVars, uiVars>>

\* The four metrics calls; a division that raises ends the script.
ComputeMetrics ==
    /\ stage = "metrics"
    /\ LET m == AllMetrics(df_sessions, df_master)
       IN IF ZeroDivisionError \in Rates(m)
          THEN /\ stage' = "raised"
               /\ exception' = "ZeroDivisionError"
               /\ UNCHANGED metrics
          ELSE /\ stage' = "export"
               /\ metrics' = m
               /\ UNCHANGED exception
    /\ UNCHANGED <<csv_sessions, csv_orders, csv_refunds, df_sessions, df_orders,
                   df_refunds, df_master, cleaning_report, dashboard_data>>
    /\ UNCHANGED <<apiVars, uiVars>>

Export ==
    /\ stage = "export"
    /\ dashboard_data' = prepare_dashboard_data(df_master, df_orders, df_refunds)
    /\ stage' = "done"
    /\ UNCHANGED <<csv_sessions, csv_orders, csv_refunds, exception, df_sessions,
                   df_orders, df_refunds, df_master, cleaning_report, metrics>>
    /\ UNCHANGED <<apiVars, uiVars>>

(***************************************************************************)
(*                       The CSV files of a run                            *)
(***************************************************************************)

MaxSessions == 2
MaxOrders == 2
MaxRefunds == 2

\* Every table of at most max rows drawn from rows.
Tables(rows, max) ==
    {RangeIndex(t) : t \in UNION {[1..n -> rows] : n \in 0..max}}

SessionIds == {1, 2}
\* The categorical cells of a session row, missing ones included.
Profiles ==
    {[traffic_source |-> "Organic", device_type |-> "Desktop",
      is_returning_customer |-> 0, product_category |-> "Apparel"],
     [traffic_source |-> "Paid Ads", device_type |-> "Mobile",
      is_returning_customer |-> 1, product_category |-> "Electronics"],
     [traffic_source |-> None, device_type |-> "Mobile",
      is_returning_customer |-> 0, product_category |-> "Apparel"],
     [traffic_source |-> "Organic", device_type |-> None,
      is_returning_customer |-> 1, product_category |-> None]}
Durations == {NaN, BadCell, 0, 3, 60, 30000}

SessionRow(id, date, p, dur) ==
    [ix |-> 0, session_id |-> id, session_date |-> date,
     session_duration |-> dur] @@ p
OrderRow(id, sid, date, value) ==
    [ix |-> 0, order_id |-> id, session_id |-> sid, order_date |-> date,
     order_value |-> value]
RefundRow(oid, date) == [ix |-> 0, order_id |-> oid, refund_date |-> date]

SessionRows ==
    {SessionRow(id, 1, p, dur) : id \in SessionIds, p \in Profiles, dur \in Durations}
PlainSession(id) ==
    SessionRow(id, 1, CHOOSE p \in Profiles : p.traffic_source = "Paid Ads", 60)

\* Orders: the id may be missing, the session may be one no row has (9), the
\* date may precede the session's, the value may be anything.
OrderRows ==
    {OrderRow(id, sid, date, value) :
        id \in {NaN, 1, 2}, sid \in {1, 2, 9}, date \in {0, 2},
        value \in {BadCell, -5, 0, 50}}
ValidOrderRows == {OrderRow(id, sid, 2, 50) : id \in {1, 2}, sid \in SessionIds}

\* Refunds: the order may be one no row has (9), the date may precede it.
RefundRows == {RefundRow(oid, date) : oid \in {1, 2, 9}, date \in {1, 3}}

\* Three families of inputs: any sessions with a few orders; any orders on
\* two plain sessions; any refunds on valid orders.
AnySessions ==
    /\ csv_sessions \in Tables(SessionRows, MaxSessions)
    /\ csv_orders \in {<<>>, RangeIndex(<<OrderRow(1, 1, 2, 50)>>),
                       RangeIndex(<<OrderRow(1, 1, 2, 50), OrderRow(2, 2, 2, 70)>>)}
    /\ csv_refunds \in {<<>>, RangeIndex(<<RefundRow(1, 3)>>)}
AnyOrders ==
    /\ csv_sessions = RangeIndex(<<PlainSession(1), PlainSession(2)>>)
    /\ csv_orders \in Tables(OrderRows, MaxOrders)
    /\ csv_refunds = RangeIndex(<<RefundRow(1, 3)>>)
AnyRefunds ==
    /\ csv_sessions \in {RangeIndex(<<PlainSession(1)>>),
                         RangeIndex(<<PlainSession(1), PlainSession(2)>>)}
    /\ csv_orders \in Tables(ValidOrderRows, MaxOrders)
    /\ csv_refunds \in Tables(RefundRows, MaxRefunds)

PipeStart ==
    /\ stage = "load"
    /\ exception = ""
    /\ df_sessions = <<>>
    /\ df_orders = <<>>
    /\ df_refunds = <<>>
    /\ df_master = <<>>
    /\ cleaning_report = <<>>
    /\ metrics = NoMetrics
    /\ dashboard_data = NoExport

InitPipe == (AnySessions \/ AnyOrders \/ AnyRefunds) /\ PipeStart

\* No script is run: the files are empty.
PipeIdle ==
    /\ csv_sessions = <<>>
    /\ csv_orders = <<>>
    /\ csv_refunds = <<>>
    /\ PipeStart

NextApi == \E c \in Calls : ApiStep(c)

NextPipe ==
    \/ Load
    \/ CleanSessions
    \/ CleanOrders
    \/ CleanRefunds
    \/ CreateMaster
    \/ ComputeMetrics
    \/ Export

Init == InitApi /\ InitPipe /\ InitUI
Next == NextApi \/ NextPipe \/ NextUI
Spec == Init /\ [][Next]_vars

\* The API service alone, and with its awaits eventually settling.
ApiAlone == InitApi /\ PipeIdle /\ UIIdle
SpecApi == ApiAlone /\ [][NextApi]_vars
FairSpecApi == SpecApi /\ \A c \in Calls : ApiSettling(c)

\* The pipeline alone.
PipeAlone == InitApi /\ InitPipe /\ UIIdle
SpecPipe == PipeAlone /\ [][NextPipe]_vars

\* The dashboard component alone.
UIAlone == InitUI /\ InitApi /\ PipeIdle
SpecUI == UIAlone /\ [][NextUI]_vars


(***************************************************************************)
(*                    Properties of getDashboardData                       *)
(***************************************************************************)

Settled(c) == pc[c] \in {"resolved", "rejected"}
LogOf(c) == SelectSeq(errorLog, LAMBDA e : e.call = c)
RequestsOf(c) == SelectSeq(requests, LAMBDA r : r.call = c)

\* C1: an invocation whose upstream failed (fetch rejected, non-OK status,
\* body unreadable or not JSON) settles by rejecting, and a resolved promise
\* carries the parsed body of an OK response, never a made-up value.
C1_FailureRejects ==
    \A c \in Calls :
        /\ (Settled(c) /\ upstream[c] # "ok") => outcome[c].kind = "rejected"
        /\ outcome[c].kind = "resolved" =>
              /\ upstream[c] = "ok"
              /\ response[c].ok
              /\ JSONParse(response[c].body).ok
              /\ outcome[c].value = JSONParse(response[c].body).value

\* Both invocations failed, in different ways, and both have settled.
C1_Witness ==
    /\ Settled(1) /\ upstream[1] = "parse error"
    /\ Settled(2) /\ upstream[2] = "http error"

\* C2: every invocation that has started issued exactly one request, to
\* /api/dashboard, whatever became of it: n invocations, n requests.
C2_OneRequestPerCall ==
    /\ Len(requests) = Cardinality({c \in Calls : pc[c] # "idle"})
    /\ \A c \in Calls :
          /\ Len(RequestsOf(c)) = IF pc[c] = "idle" THEN 0 ELSE 1
          /\ \A i \in 1..Len(RequestsOf(c)) : RequestsOf(c)[i].url = DashboardUrl

\* Two overlapping invocations, one failed and one succeeded, both settled.
C2_Witness ==
    /\ pc[1] = "rejected"
    /\ pc[2] = "resolved"
    /\ Len(requests) = 2
    /\ requests[1].call = 2

\* C3: with the fetch and the body reads settling, the promise of every
\* started invocation settles, it settles once, and the way it settled never
\* changes afterwards.
C3_SettlesExactlyOnce ==
    /\ \A c \in Calls : (pc[c] # "idle") ~> (Settled(c) /\ settles[c] = 1)
    /\ [](\A c \in Calls : settles[c] = IF Settled(c) THEN 1 ELSE 0)
    /\ [][\A c \in Calls : Settled(c) =>
              /\ outcome'[c] = outcome[c]
              /\ pc'[c] = pc[c]]_vars

\* A non-OK response with a body that is not JSON, settled.
C3_Witness ==
    \E c \in Calls :
        /\ Settled(c)
        /\ settles[c] = 1
        /\ upstream[c] = "http error"
        /\ ~response[c].body.valid
        /\ \E d \in Calls \ {c} : pc[d] = "resolved"

\* C4: a rejected invocation has exactly one console.error event, and the
\* error it rejected with is the error that event recorded.
C4_LoggedOnceAndRethrown ==
    \A c \in Calls :
        pc[c] = "rejected" =>
            /\ Len(LogOf(c)) = 1
            /\ LogOf(c)[1].error = outcome[c].error

\* Both invocations rejected, one on the network, one on a 500 with a detail.
C4_Witness ==
    /\ pc[1] = "rejected" /\ upstream[1] = "network error"
    /\ pc[2] = "rejected" /\ response[2].status = 500
    /\ response[2].body.valid /\ response[2].body.value.detail # ""
    /\ Len(errorLog) = 2

\* C5: whenever an invocation resolves, the value has the five fields of
\* DashboardData.
C5_ResolvedHasFixedShape ==
    \A c \in Calls :
        outcome[c].kind = "resolved" =>
            /\ outcome[c].value.type = "object"
            /\ DashboardFields \subseteq outcome[c].value.fields


(***************************************************************************)
(*                  Properties of the metrics pipeline                     *)
(***************************************************************************)

Measured == stage \in {"export", "done"}

\* The sum of a dictionary's values.
RECURSIVE DictSum(_)
DictSum(f) ==
    IF DOMAIN f = {} THEN 0
    ELSE LET k == CHOOSE k \in DOMAIN f : TRUE
         IN f[k] + DictSum([j \in DOMAIN f \ {k} |-> f[j]])

CountsOf(agg) == [v \in DOMAIN agg |-> agg[v].count]

\* C6: in each of the four groupings the per-group counts add up to the
\* number of rows of the table that was grouped.
C6_GroupCountsSumToTotal ==
    Measured =>
        /\ DictSum(metrics.traffic.sessions_by_channel) = Len(df_sessions)
        /\ DictSum(metrics.traffic.sessions_by_device) = Len(df_sessions)
        /\ DictSum(CountsOf(metrics.conversion.conversion_by_channel)) = Len(df_master)
        /\ DictSum(CountsOf(metrics.conversion.conversion_by_device)) = Len(df_master)

\* The values a mean or rate over nothing may take.
Sentinels == {NotANumber, Num(0, 1)}

\* C7: no metrics call raises on a zero divisor; every mean and rate is a
\* number or nan; over an empty table, or with no order or no converted
\* session to divide by, it is nan or 0; and the dashboard's KPIs, computed
\* from its generated tables, are numbers.
C7_MeansAndRatesDefined ==
    /\ exception # "ZeroDivisionError"
    /\ Measured =>
          /\ \A r \in Rates(metrics) : r.k \in {"num", "nan"} /\ r.d > 0
          /\ df_sessions = <<>> =>
                /\ metrics.traffic.avg_session_duration \in Sentinels
                /\ metrics.traffic.bounce_rate \in Sentinels
          /\ df_master = <<>> =>
                /\ metrics.conversion.overall_conversion_rate \in Sentinels
                /\ metrics.revenue.revenue_per_session \in Sentinels
                /\ metrics.quality.repeat_customer_rate \in Sentinels
          /\ (\A i \in 1..Len(df_master) : ~df_master[i].converted) =>
                /\ metrics.conversion.avg_time_to_conversion \in Sentinels
                /\ metrics.revenue.average_order_value \in Sentinels
                /\ metrics.quality.overall_refund_rate \in Sentinels
    /\ \A kpi \in {"avgConversion", "conversionRate", "avgOrderValue", "refundRate"} :
          DashboardKPIs[kpi].k = "num"

\* Sessions were loaded, cleaning removed them all, and the metrics of the
\* empty tables were computed.
C7_Witness ==
    /\ stage = "done"
    /\ csv_sessions # <<>>
    /\ df_sessions = <<>>
    /\ df_master = <<>>
    /\ metrics.conversion.overall_conversion_rate = NotANumber
    /\ metrics.quality.overall_refund_rate = Num(0, 1)

NonIncreasing(values) ==
    \A i \in 1..(Len(values) - 1) : values[i + 1] <= values[i]

\* C8: the stage values of both funnels never increase along the stages.
C8_FunnelNonIncreasing ==
    /\ NonIncreasing([i \in 1..Len(generateFunnelData) |-> generateFunnelData[i].value])
    /\ stage = "done" => NonIncreasing(dashboard_data.funnel.values)

\* Each refund names an order of orders.csv, each order a session of
\* sessions.csv.
ValidInput ==
    /\ \A i \in 1..Len(csv_refunds) :
          \E j \in 1..Len(csv_orders) : csv_orders[j].order_id = csv_refunds[i].order_id
    /\ \A j \in 1..Len(csv_orders) :
          \E k \in 1..Len(csv_sessions) :
              csv_sessions[k].session_id = csv_orders[j].session_id

\* No two rows of sessions.csv share a session_id, nor two of orders.csv an
\* order_id.
UniqueKeys ==
    /\ \A i, j \in 1..Len(csv_sessions) :
          csv_sessions[i].session_id = csv_sessions[j].session_id => i = j
    /\ \A i, j \in 1..Len(csv_orders) :
          csv_orders[i].order_id = csv_orders[j].order_id => i = j

\* No order of orders.csv has more than one refund in refunds.csv.
OneRefundPerOrder ==
    \A i, j \in 1..Len(csv_refunds) :
        csv_refunds[i].order_id = csv_refunds[j].order_id => i = j

\* C9: overall_refund_rate is the number of cleaned refund records over the
\* number of cleaned order records, and the dashboard's refundRate is
\* totalRefunds / totalOrders (as a percentage with one decimal).  Stated
\* where it asks least: the input's references are valid, its keys unique,
\* no order is refunded twice (refund records and refunded orders are then
\* the same number) and cleaning removed no session.
C9_RefundRateIsRefundsOverOrders ==
    /\ (/\ Measured
        /\ ValidInput
        /\ UniqueKeys
        /\ OneRefundPerOrder
        /\ Len(df_sessions) = Len(csv_sessions)
        /\ df_orders # <<>>) =>
          /\ metrics.quality.overall_refund_rate.k = "num"
          /\ metrics.quality.overall_refund_rate.n * Len(df_orders)
                = Len(df_refunds) * metrics.quality.overall_refund_rate.d
    /\ LET k == DashboardKPIs
           diff == k.refundRate.n * k.totalOrders
                     - 100 * k.refundRate.d * k.totalRefunds
       IN /\ k.refundRate.k = "num"
          /\ 2 * diff <= k.totalOrders
          /\ -2 * diff <= k.totalOrders

\* C10: for valid input the overall refund rate is a number between 0 and 1.
C10_RefundRateInUnitInterval ==
    (Measured /\ ValidInput) =>
        LET r == metrics.quality.overall_refund_rate
        IN /\ r.k = "num"
           /\ r.d > 0
           /\ 0 <= r.n
           /\ r.n <= r.d

\* Valid input in which a session has two orders and an order two refunds.
C10_Witness ==
    /\ stage = "done"
    /\ ValidInput
    /\ \E s \in SessionIds : Len(Group(df_orders, "session_id", s)) >= 2
    /\ \E i \in 1..Len(df_orders) :
          Len(Group(df_refunds, "order_id", df_orders[i].order_id)) >= 2
    /\ metrics.quality.overall_refund_rate.n > 0

(***************************************************************************)
(*                       Properties of the cleaner                         *)
(***************************************************************************)

RefundsCleaned == stage \in {"create_master", "metrics", "export", "done"}

\* C11: once clean_refunds has run, every refund left carries the date of an
\* order of the cleaned orders with its order_id, and is dated on or after it.
C11_RefundNotBeforeOrder ==
    RefundsCleaned =>
        \A i \in 1..Len(df_refunds) :
            LET r == df_refunds[i]
            IN /\ r.refund_date # NaN
               /\ r.order_date # NaN
               /\ r.refund_date >= r.order_date
               /\ r.days_to_refund >= 0
               /\ \E j \in 1..Len(df_orders) :
                     /\ df_orders[j].order_id = r.order_id
                     /\ df_orders[j].order_date = r.order_date

\* clean_refunds was given two refunds, one of them dated before its order,
\* and kept one.
C11_Witness ==
    /\ stage = "create_master"
    /\ \E i \in 1..Len(csv_refunds), j \in 1..Len(df_orders) :
          /\ csv_refunds[i].order_id = df_orders[j].order_id
          /\ csv_refunds[i].refund_date < df_orders[j].order_date
    /\ Len(df_refunds) = 1
    /\ Len(csv_refunds) = 2

SessionsCleaned == stage \notin {"load", "clean_sessions"}

\* C12: once clean_sessions has run, no two rows of the sessions table share
\* a session_id, and each is the first row of the file with its id.
C12_SessionIdUnique ==
    SessionsCleaned =>
        /\ \A i, j \in 1..Len(df_sessions) :
              df_sessions[i].session_id = df_sessions[j].session_id => i = j
        /\ \A i \in 1..Len(df_sessions) :
              LET k == df_sessions[i].ix + 1
              IN /\ csv_sessions[k].session_id = df_sessions[i].session_id
                 /\ \A j \in 1..(k - 1) :
                       csv_sessions[j].session_id # csv_sessions[k].session_id

\* The file had the same session_id twice, in rows that differ, and
\* clean_sessions kept one of the two.
C12_Witness ==
    /\ stage = "clean_orders"
    /\ Len(csv_sessions) = 2
    /\ csv_sessions[1].session_id = csv_sessions[2].session_id
    /\ csv_sessions[1].session_duration # csv_sessions[2].session_duration
    /\ Len(df_sessions) = 1

(***************************************************************************)
(*                 Properties of the dashboard component                   *)
(***************************************************************************)

\* shown is 100 * n / d rounded to `digits` decimals: a number with that
\* many decimals, no further than half a unit of the last one from it.
RoundedPercent(shown, n, d, digits) ==
    /\ shown.k = "num"
    /\ shown.d = 10^digits
    /\ 2 * (shown.n * d - 100 * n * shown.d) <= d
    /\ 2 * (100 * n * shown.d - shown.n * d) <= d

\* C13: the percentages the component computes are ratio x 100 rounded:
\* conversionRate (last stage / first stage) to 2 decimals, refundRate
\* (totalRefunds / totalOrders) to 1 decimal, and in both funnel views each
\* stage's share of the first stage and its drop-off from the previous
\* stage to 1 decimal.
C13_PercentagesRounded ==
    LET f == generateFunnelData
        k == DashboardKPIs
    IN /\ "Overview" \in Render.panels =>
            /\ RoundedPercent(k.conversionRate, f[Len(f)].value, f[1].value, 2)
            /\ RoundedPercent(k.refundRate, k.totalRefunds, k.totalOrders, 1)
            /\ \A i \in 1..Len(f) :
                  /\ RoundedPercent(OverviewFunnel(f)[i].percentage,
                                    f[i].value, f[1].value, 1)
                  /\ i > 1 =>
                        RoundedPercent(OverviewFunnel(f)[i].dropoff,
                                       f[i - 1].value - f[i].value, f[i - 1].value, 1)
       /\ "Funnel" \in Render.panels =>
            \A i \in 1..Len(f) :
                /\ RoundedPercent(StageAnalysis(f)[i].percentage,
                                  f[i].value, f[1].value, 1)
                /\ i > 1 =>
                      RoundedPercent(StageAnalysis(f)[i].dropoff,
                                     f[i - 1].value - f[i].value, f[i - 1].value, 1)

\* The Funnel panel is rendered; the refund rate 159 / 705 = 22.55...% is
\* displayed as 22.6 and the conversion rate 1215 / 45000 as 2.70.
C13_Witness ==
    /\ Render.panels = {"Funnel"}
    /\ DashboardKPIs.refundRate = Num(226, 10)
    /\ DashboardKPIs.conversionRate = Num(270, 100)
    /\ StageAnalysis(generateFunnelData)[3].dropoff = Num(750, 10)

\* C14: overall_conversion_rate is the number of cleaned order records over
\* the number of cleaned session records.  Stated where it asks least: the
\* input's references are valid, its keys unique, and cleaning removed no
\* session (every order then belongs to a session of the master table).
C14_ConversionIsOrdersOverSessions ==
    (/\ Measured
     /\ ValidInput
     /\ UniqueKeys
     /\ Len(df_sessions) = Len(csv_sessions)
     /\ df_sessions # <<>>) =>
        LET r == metrics.conversion.overall_conversion_rate
        IN /\ r.k = "num"
           /\ r.n * Len(df_sessions) = Len(df_orders) * r.d

\* C15: once clean_sessions has run, every session left has a duration, of
\* at least 1 second and at most 8 hours.
C15_NoBotSessionRemains ==
    SessionsCleaned =>
        \A i \in 1..Len(df_sessions) :
            /\ df_sessions[i].session_duration # NaN
            /\ df_sessions[i].session_duration >= BotMinSeconds
            /\ df_sessions[i].session_duration <= BotMaxSeconds

OrdersCleaned == stage \in {"clean_refunds", "create_master", "metrics", "export", "done"}

C18_OrdersRemovedExact ==
    OrdersCleaned =>
        cleaning_report.orders_removed = Len(csv_orders) - Len(df_orders)

\* C19: once clean_refunds has returned, cleaning_report['refunds_removed']
\* is the number of rows of refunds.csv that are not in the cleaned refunds.
C19_RefundsRemovedExact ==
    RefundsCleaned =>
        cleaning_report.refunds_removed = Len(csv_refunds) - Len(df_refunds)

\* C20: once clean_sessions has run, cleaning_report['sessions_removed'] is
\* the number of rows of sessions.csv that are not in the cleaned sessions.
C20_SessionsRemovedExact ==
    SessionsCleaned =>
        cleaning_report.sessions_removed = Len(csv_sessions) - Len(df_sessions)

\* The file had one session_id twice, both rows with a bot's duration: the
\* second went as a duplicate, the first as a bot.
C20_Witness ==
    /\ stage = "clean_orders"
    /\ Len(csv_sessions) = 2
    /\ csv_sessions[1].session_id = csv_sessions[2].session_id
    /\ csv_sessions[1].session_duration = 30000
    /\ csv_sessions[2].session_duration = 0
    /\ df_sessions = <<>>
    /\ cleaning_report.sessions_removed = 2

MasterCreated == stage \in {"metrics", "export", "done"}

\* C21: the master table has one row per cleaned session, in the sessions'
\* order: as many rows as the sessions table, row by row the same
\* session_id, and no session_id twice.
C21_OneRowPerSession ==
    MasterCreated =>
        /\ Len(df_master) = Len(df_sessions)
        /\ \A i \in 1..Len(df_master) :
              df_master[i].session_id = df_sessions[i].session_id
        /\ \A i, j \in 1..Len(df_master) :
              df_master[i].session_id = df_master[j].session_id => i = j

\* Two sessions, one with two orders and a refund, the other with none.
C21_Witness ==
    /\ stage = "metrics"
    /\ Len(df_sessions) = 2
    /\ \E s \in SessionIds : Len(Group(df_orders, "session_id", s)) = 2
    /\ df_refunds # <<>>
    /\ Len(df_master) = 2

\* C22: a rejection after a non-OK response whose body is JSON with a
\* non-empty detail carries that detail as its message; every other
\* rejection after a non-OK response whose body was read carries the generic
\* message with the status.
C22_DetailIsTheMessage ==
    \A c \in Calls :
        (pc[c] = "rejected" /\ upstream[c] = "http error") =>
            LET body == response[c].body
            IN IF body.valid /\ body.value.type = "object" /\ body.value.detail # ""
               THEN outcome[c].error = DetailError(body.value.detail)
               ELSE outcome[c].error = HttpError(response[c].status)

\* C23: in the master table was_refunded is 0 or 1, and it is 1 exactly for
\* the sessions that have an order, in the cleaned orders, with a refund
\* record in the cleaned refunds.
C23_WasRefundedFlag ==
    MasterCreated =>
        \A i \in 1..Len(df_master) :
            /\ df_master[i].was_refunded \in {0, 1}
            /\ df_master[i].was_refunded = 1 <=>
                  \E j \in 1..Len(df_orders), k \in 1..Len(df_refunds) :
                      /\ df_orders[j].session_id = df_master[i].session_id
                      /\ df_refunds[k].order_id = df_orders[j].order_id

\* A session with two orders of which one was refunded, next to a session
\* without orders.
C23_Witness ==
    /\ stage = "metrics"
    /\ Len(df_master) = 2
    /\ Len(df_orders) = 2
    /\ df_orders[1].session_id = df_orders[2].session_id
    /\ df_orders[1].order_id # df_orders[2].order_id
    /\ Len(df_refunds) = 1
    /\ \E i \in 1..2 : df_master[i].was_refunded = 1
    /\ \E i \in 1..2 : df_master[i].was_refunded = 0

\* conversion_flag is 0 or 1, and 1 exactly for the sessions with an order
\* in the cleaned orders; total_conversions is at most the number of
\* sessions.
ConversionFlagRight ==
    /\ MasterCreated =>
          \A i \in 1..Len(df_master) :
              /\ df_master[i].conversion_flag \in {0, 1}
              /\ df_master[i].conversion_flag = 1 <=>
                    \E j \in 1..Len(df_orders) :
                        df_orders[j].session_id = df_master[i].session_id
    /\ Measured =>
          /\ metrics.conversion.total_conversions >= 0
          /\ metrics.conversion.total_conversions <= Len(df_master)

InUnitInterval(r) == r.k = "num" /\ r.d > 0 /\ 0 <= r.n /\ r.n <= r.d

\* C24, as stated: conversion_flag is 1 exactly for the sessions with an
\* order, total_conversions never exceeds the number of sessions, and
\* overall_conversion_rate lies in [0, 1].
C24_ConversionRateInUnitInterval ==
    /\ ConversionFlagRight
    /\ Measured => InUnitInterval(metrics.conversion.overall_conversion_rate)

\* C24, amended: the same, with overall_conversion_rate in [0, 1] when the
\* master table has a session and not-a-number when it has none.
C24_ConversionFlagAndRate ==
    /\ ConversionFlagRight
    /\ Measured =>
          IF df_master # <<>>
          THEN InUnitInterval(metrics.conversion.overall_conversion_rate)
          ELSE metrics.conversion.overall_conversion_rate = NotANumber

\* Two sessions, one with two orders and one with none: rate 1/2.
C24_Witness ==
    /\ stage = "done"
    /\ Len(df_master) = 2
    /\ Len(df_orders) = 2
    /\ df_orders[1].session_id = df_orders[2].session_id
    /\ metrics.conversion.total_conversions = 1
    /\ metrics.conversion.overall_conversion_rate = Num(1, 2)


\* ---------------------------------------------------------------------
\* C25: no UI action changes the data or the KPIs.  In every step of the
\* component (a tab, time-range or channel selection, opening or closing
\* the sidebar) the eight memoized data sets, the random revenueData and
\* timeSeriesData among them, keep their values, and so do the six KPI
\* values the render shows.
C25_DataAndKPIsUnchanged ==
    [][/\ memo' = memo
       /\ RenderedKPIs(memo') = RenderedKPIs(memo)]_vars

\* A time range and a channel were selected on a mount whose random tables
\* are not those a later call of the generators would give for stream 0.
C25_Witness ==
    /\ timeRange = "Year"
    /\ selectedChannel = "Paid Ads"
    /\ mobileOpen
    /\ activeTab = "Channels"
    /\ memo.revenueData # generateRevenueData(0)
    /\ memo.timeSeriesData # generateTimeSeriesData(0)
    /\ RenderedKPIs(memo).totalRevenue > 0


\* ---------------------------------------------------------------------
\* C26: selectedChannel is always null or the name of a channel of
\* channelData; filteredChannelData is all of channelData when it is null
\* and otherwise the one row of that name, hence never empty; only the
\* buttons of the channel selector change selectedChannel, so selecting a
\* tab or a time range leaves it as it was.
C26_SelectedChannel ==
    /\ [](/\ selectedChannel \in {null} \cup ChannelNames
          /\ LET rows == filteredChannelData(memo.channelData, selectedChannel)
             IN /\ selectedChannel = null => rows = memo.channelData
                /\ selectedChannel # null =>
                      /\ Len(rows) = 1
                      /\ rows[1].name = selectedChannel
                      /\ \E i \in 1..Len(memo.channelData) : rows[1] = memo.channelData[i]
                /\ rows # <<>>)
    /\ [][selectedChannel' # selectedChannel =>
             \/ SelectAllChannels
             \/ \E name \in ChannelNames : SelectChannel(name)]_vars
    /\ [][(\/ \E i \in 1..Len(NavItems) : SelectTab(NavItems[i])
           \/ \E i \in 1..Len(timeRanges) : SelectTimeRange(timeRanges[i]))
          => selectedChannel' = selectedChannel]_vars

\* A channel was selected, and then another tab and another time range.
C26_Witness ==
    /\ selectedChannel = "Social"
    /\ activeTab = "Products"
    /\ timeRange = "Month"
    /\ Len(filteredChannelData(memo.channelData, selectedChannel)) = 1


\* ---------------------------------------------------------------------
\* C28: the Overview's Conversion Funnel and the Funnel tab's Stage
\* Analysis agree.  For the component's own funnelData and for every funnel
\* table of FunnelDataSets, stage by stage: the same share of the first
\* stage; after the first stage a drop-off in both, and the same one; for
\* the first stage a drop-off in neither.
FunnelViewsAgree(funnelData) ==
    LET overview == OverviewFunnelShown(funnelData)
        analysis == StageAnalysisShown(funnelData)
    IN /\ Len(overview) = Len(funnelData)
       /\ Len(analysis) = Len(funnelData)
       /\ \A idx \in 1..Len(funnelData) :
             /\ overview[idx].stage = analysis[idx].stage
             /\ overview[idx].percentage = analysis[idx].percentage
             /\ idx > 1 => /\ overview[idx].showsDropoff
                           /\ analysis[idx].showsDropoff
                           /\ overview[idx].dropoff = analysis[idx].dropoff
             /\ idx = 1 => /\ ~overview[idx].showsDropoff
                           /\ ~analysis[idx].showsDropoff

C28_FunnelViewsAgree ==
    /\ FunnelViewsAgree(memo.funnelData)
    /\ \A values \in FunnelDataSets : FunnelViewsAgree(FunnelTable(values))

\* The Funnel tab is shown; its second stage shows the 28.0% drop the
\* Overview shows too, and its first stage none although the view computed
\* 0.0 for it; among the tables compared is one whose drop-off is a division
\* by zero and one whose stage grows.
C28_Witness ==
    /\ "Funnel" \in Render.panels
    /\ StageAnalysisShown(memo.funnelData)[2].dropoff = Num(280, 10)
    /\ OverviewFunnelShown(memo.funnelData)[2].dropoff = Num(280, 10)
    /\ StageAnalysis(memo.funnelData)[1].dropoff = Num(0, 10)
    /\ ~StageAnalysisShown(memo.funnelData)[1].showsDropoff
    /\ StageAnalysisShown(FunnelTable(<<0, 3>>))[2].dropoff = MinusInfinity
    /\ StageAnalysisShown(FunnelTable(<<1, 3>>))[2].dropoff = Num(-2000, 10)
    /\ StageAnalysisShown(FunnelTable(<<0, 0>>))[2].percentage = NotANumber


\* ---------------------------------------------------------------------
\* C27: the mobile sidebar starts closed; a step that opens it is a click
\* on the header's menu button; right after a click on a navigation button
\* it is closed and activeTab is the clicked tab; right after a click on
\* the close button it is closed; and a click on the menu button or the
\* close button leaves activeTab as it was.
C27_MobileSidebar ==
    /\ mobileOpen = FALSE
    /\ Render.sidebar = "-translate-x-full"
    /\ [][(~mobileOpen /\ mobileOpen') => OpenMenu]_vars
    /\ [][\A i \in 1..Len(NavItems) :
             SelectTab(NavItems[i]) =>
                /\ mobileOpen' = FALSE
                /\ activeTab' = NavItems[i]]_vars
    /\ [][CloseMenu => mobileOpen' = FALSE]_vars
    /\ [][(OpenMenu \/ CloseMenu) => activeTab' = activeTab]_vars

\* A tab other than the first is selected and the sidebar is off screen:
\* the state right after a navigation click.
C27_Witness ==
    /\ activeTab = "Reports"
    /\ mobileOpen = FALSE
    /\ Render.sidebar = "-translate-x-full"
    /\ Render.title = "Reports"


\* ---------------------------------------------------------------------
\* C29: each figure of the Optimization Opportunities card is a drop-off
\* the component computes from generateFunnelData, to one decimal: for the
\* step at funnel stage s (Product Page at 2, Add to Cart at 3, Checkout at
\* 4), the drop-off Stage Analysis shows for stage s (from s - 1 to s) or
\* the one it shows for stage s + 1 (from s to s + 1).
C29_OpportunitiesAreComputed ==
    "Funnel" \in Render.panels =>
       \A i \in 1..Len(OptimizationOpportunities) :
          LET shown == StageAnalysisShown(memo.funnelData)
          IN \/ OptimizationOpportunities[i].dropoff = shown[i + 1].dropoff
             \/ OptimizationOpportunities[i].dropoff = shown[i + 2].dropoff

=============================================================================
